---- MODULE Spec2Model ----
(***************************************************************************)
(* Gifts-Buyer: the detect -> diff -> evaluate -> prioritize -> purchase   *)
(* pipeline of src/app/utils/detector.py, src/app/core/callbacks.py,       *)
(* src/app/purchase.py, src/app/errors.py and src/data/config.py.          *)
(*                                                                         *)
(* Python dicts are records (functions from key strings); a dict whose     *)
(* iteration order matters (gifts keyed by id) is the sequence of its      *)
(* values in insertion order.  An optional value is a sequence of length 0 *)
(* or 1.  Every remote call takes its result from a finite set of          *)
(* responses the platform can give.                                        *)
(***************************************************************************)
EXTENDS Integers, Sequences, FiniteSets, TLC

VARIABLES
    \* data/config.py: the two boolean options of section [Gifts]
    PURCHASE_ONLY_UPGRADABLE_GIFTS, PRIORITIZE_LOW_SUPPLY,
    \* the platform: the account's star balance
    balance,
    \* data/json/history.json: <<>> when the file is missing, else <<list>>
    history,
    \* GiftMonitor.run_detection_loop / _process_new_gifts
    pc, old_gifts, current_gifts, gift_ids, new_gifts, skip_counts,
    prioritized_gifts, idx,
    \* process_new_gift / _distribute_gifts
    quantity, recipients, ridx,
    \* GiftPurchaser.buy_gift / _purchase_gifts
    username, gift_price, current_balance, max_affordable, current_gift,
    \* observation of the run (not program state)
    fetched,        \* the catalog the loop fetched in this cycle
    prevFetched,    \* <<>> or <<the catalog the previous completed cycle fetched>>
    prevSnapshot,   \* the history file as the current pass found it
    called,         \* ids the callback was invoked for in this cycle
    attempted,      \* recipients buy_gift was invoked for, for the current gift
    failed,         \* recipients of the current gift whose purchase call failed
    lastPurchase,   \* <<>> or <<[gift_id, chat_id, unit]>>: last purchase call of the cycle
    log,            \* events of the current callback step, oldest first
    summary,        \* summary messages sent in this cycle
    delayed,        \* no purchase call was issued since the last asyncio.sleep(0.5)
    partial_reports,\* partial-purchase reports sent for the current gift
    purchase_failed,\* a purchase call failed since the loop last fetched the catalog
    first_affordable,\* <<>> or <<max_affordable of the gift's first recipient>>
    listed_prices,  \* prices the platform listed for the gift in the last price lookup
    cancelled_at,   \* "none", or where the loop stood when it was interrupted
    cycle_balance,  \* the account's balance when the current pass began
    \* pure-function harness: the function applied, its arguments, its result
    fn, args, ret

configVars == <<PURCHASE_ONLY_UPGRADABLE_GIFTS, PRIORITIZE_LOW_SUPPLY>>
loopVars   == <<pc, old_gifts, current_gifts, gift_ids, new_gifts, skip_counts,
                prioritized_gifts, idx>>
cbVars     == <<quantity, recipients, ridx>>
buyVars    == <<username, gift_price, current_balance, max_affordable,
                current_gift>>
obsVars    == <<fetched, prevFetched, prevSnapshot, called, attempted, failed,
                lastPurchase, log, summary, delayed, partial_reports,
                purchase_failed, first_affordable, listed_prices,
                cancelled_at, cycle_balance>>
spacingObs == <<delayed, partial_reports>>
attemptObs == <<first_affordable, listed_prices>>
pureVars   == <<fn, args, ret>>
loopData   == <<old_gifts, current_gifts, gift_ids, new_gifts, skip_counts,
                prioritized_gifts>>
cycleObs   == <<fetched, prevFetched, prevSnapshot>>
vars == <<configVars, balance, history, loopVars, cbVars, buyVars, obsVars, pureVars>>

----------------------------------------------------------------------------
(* Python helpers *)

\* dict.get(key, default)
Get(d, key, default) == IF key \in DOMAIN d THEN d[key] ELSE default

Min(a, b) == IF a <= b THEN a ELSE b

\* list.index(x): 0-based index of the first occurrence
IndexOf(seq, x) ==
    (CHOOSE i \in 1..Len(seq) : seq[i] = x /\ \A j \in 1..(i - 1) : seq[j] # x) - 1

Ids(gifts) == [i \in 1..Len(gifts) |-> gifts[i].id]
IdSet(gifts) == {gifts[i].id : i \in 1..Len(gifts)}

\* tuple comparison a < b of two equally long tuples of integers
RECURSIVE TupleLess(_, _)
TupleLess(a, b) ==
    IF a = <<>> THEN FALSE
    ELSE IF Head(a) # Head(b) THEN Head(a) < Head(b)
    ELSE TupleLess(Tail(a), Tail(b))

\* Insert item x with key k into (items, keys), sorted by key, after every
\* element whose key is not greater: sorted() is stable.
RECURSIVE InsertSorted(_, _, _, _)
InsertSorted(items, keys, x, k) ==
    IF items = <<>> THEN <<x>>
    ELSE IF TupleLess(k, Head(keys)) THEN <<x>> \o items
    ELSE <<Head(items)>> \o InsertSorted(Tail(items), Tail(keys), x, k)

\* sorted(items, key=...) where keys[i] is the key of items[i]
RECURSIVE sorted(_, _)
sorted(items, keys) ==
    IF items = <<>> THEN <<>>
    ELSE LET n    == Len(items)
             init == sorted(SubSeq(items, 1, n - 1), SubSeq(keys, 1, n - 1))
             ik   == sorted(SubSeq(keys, 1, n - 1), SubSeq(keys, 1, n - 1))
         IN  InsertSorted(init, ik, items[n], keys[n])

\* {gift["id"]: gift for gift in list}: a key keeps the place of its first
\* occurrence and the value of its last
RECURSIVE dict_by_id(_)
dict_by_id(list) ==
    IF list = <<>> THEN <<>>
    ELSE LET n    == Len(list)
             init == dict_by_id(SubSeq(list, 1, n - 1))
             g    == list[n]
         IN  IF g.id \in IdSet(init)
             THEN [i \in 1..Len(init) |-> IF init[i].id = g.id THEN g ELSE init[i]]
             ELSE Append(init, g)

----------------------------------------------------------------------------
(* Configuration and the platform's possible answers *)

\* config.GIFT_RANGES as Config() loads it from
\*   GIFT_RANGES = 10-50: 100 x 5: 101, 51-100: 50 x 1: 102
\* _parse_gift_ranges splits the option on ',' before it parses a range, so
\* every range carries one recipient
GIFT_RANGES ==
    << [min_price |-> 10, max_price |-> 50, supply_limit |-> 100,
        quantity |-> 5, recipients |-> <<101>>],
       [min_price |-> 51, max_price |-> 100, supply_limit |-> 50,
        quantity |-> 1, recipients |-> <<102>>] >>

\* Gifts the platform lists, as fetch_current_gifts serialises them (an
\* attribute that is None is left out)
giftA  == [id |-> 1, price |-> 10, is_limited |-> TRUE, is_sold_out |-> FALSE,
           total_amount |-> 40, upgrade_price |-> 5]
giftA2 == [id |-> 1, price |-> 30, is_limited |-> TRUE, is_sold_out |-> FALSE,
           total_amount |-> 40, upgrade_price |-> 5]
giftB  == [id |-> 2, price |-> 60, is_limited |-> TRUE, is_sold_out |-> FALSE,
           total_amount |-> 10]
giftC  == [id |-> 3, price |-> 10, is_limited |-> TRUE, is_sold_out |-> TRUE,
           total_amount |-> 40]
giftD  == [id |-> 4, price |-> 20]

Catalogs ==
    { <<>>, <<giftA>>, <<giftB, giftA>>, <<giftC, giftA2>>, <<giftD, giftB>> }

\* What app.get_available_gifts() can produce: an exception or a catalog
GiftResponses ==
    {[ok |-> FALSE, gifts |-> <<>>]} \cup {[ok |-> TRUE, gifts |-> c] : c \in Catalogs}

InitialBalances == {25, 60, 70}

\* What app.get_chat(chat_id) can produce: an exception, or a chat whose
\* username is None (<<>>) or set
ChatResponses ==
    { [ok |-> FALSE, username |-> <<>>], [ok |-> TRUE, username |-> <<>>],
      [ok |-> TRUE, username |-> <<"bob">>] }

\* str(ex) of an RPCError, as the set of known error codes it contains
RpcErrors == { {}, {"BALANCE_TOO_LOW"}, {"STARGIFT_USAGE_LIMITED"}, {"PEER_ID_INVALID"} }

----------------------------------------------------------------------------
(* data/config.py *)

\* get_matching_range taking the last matching range instead of the first
get_matching_range_LastMatch(ranges, price, total_amount) ==
    LET matching_ranges ==
            SelectSeq(ranges, LAMBDA range_config :
                /\ range_config.min_price <= price
                /\ price <= range_config.max_price
                /\ total_amount <= range_config.supply_limit)
        n == Len(matching_ranges)
    IN  IF matching_ranges # <<>>
        THEN [matched |-> TRUE, quantity |-> matching_ranges[n].quantity,
              recipients |-> matching_ranges[n].recipients]
        ELSE [matched |-> FALSE, quantity |-> 0, recipients |-> <<>>]

\* Config.get_matching_range: (matched, quantity, recipients) of the first
\* configured range that holds the price and admits the supply
get_matching_range(ranges, price, total_amount) ==
    LET matching_ranges ==
            SelectSeq(ranges, LAMBDA range_config :
                /\ range_config.min_price <= price
                /\ price <= range_config.max_price
                /\ total_amount <= range_config.supply_limit)
    IN  IF matching_ranges # <<>>
        THEN [matched |-> TRUE, quantity |-> matching_ranges[1].quantity,
              recipients |-> matching_ranges[1].recipients]
        ELSE [matched |-> FALSE, quantity |-> 0, recipients |-> <<>>]

----------------------------------------------------------------------------
(* app/core/callbacks.py: GiftProcessor *)

\* the range match called with price and supply in each other's place
evaluate_range_match_SwappedArgs(ranges, price, total_amount) ==
    LET m == get_matching_range(ranges, total_amount, price)
    IN  IF m.matched
        THEN [eligible |-> TRUE,
              data |-> [quantity |-> m.quantity, recipients |-> m.recipients]]
        ELSE [eligible |-> FALSE,
              data |-> [range_error |-> TRUE, gift_price |-> price,
                        total_amount |-> total_amount]]

\* GiftProcessor._evaluate_range_match
evaluate_range_match(ranges, price, total_amount) ==
    LET m == get_matching_range(ranges, price, total_amount)
    IN  IF m.matched
        THEN [eligible |-> TRUE,
              data |-> [quantity |-> m.quantity, recipients |-> m.recipients]]
        ELSE [eligible |-> FALSE,
              data |-> [range_error |-> TRUE, gift_price |-> price,
                        total_amount |-> total_amount]]

\* the gift's attributes as evaluate_gift extracts them
GiftPrice(gift_data) == Get(gift_data, "price", 0)
IsLimited(gift_data) == Get(gift_data, "is_limited", FALSE)
IsSoldOut(gift_data) == Get(gift_data, "is_sold_out", FALSE)
IsUpgradable(gift_data) == "upgrade_price" \in DOMAIN gift_data
TotalAmount(gift_data) ==
    IF IsLimited(gift_data) THEN Get(gift_data, "total_amount", 0) ELSE 0

Excluded(reason) == [eligible |-> FALSE, data |-> [exclusion_reason |-> reason]]

\* the ranges looked at before the exclusion rules
evaluate_gift_RangeFirst(ranges, only_upgradable, gift_data) ==
    LET verdict == evaluate_range_match(ranges, GiftPrice(gift_data),
                                        TotalAmount(gift_data))
    IN  IF ~verdict.eligible THEN verdict
        ELSE IF IsSoldOut(gift_data) THEN Excluded("sold_out")
        ELSE IF ~IsLimited(gift_data) THEN Excluded("non_limited_blocked")
        ELSE IF only_upgradable /\ ~IsUpgradable(gift_data)
        THEN Excluded("non_upgradable_blocked")
        ELSE verdict

\* the upgradable rule placed before the limited rule
evaluate_gift_UpgradableFirst(ranges, only_upgradable, gift_data) ==
    IF IsSoldOut(gift_data) THEN Excluded("sold_out")
    ELSE IF only_upgradable /\ ~IsUpgradable(gift_data)
    THEN Excluded("non_upgradable_blocked")
    ELSE IF ~IsLimited(gift_data) THEN Excluded("non_limited_blocked")
    ELSE evaluate_range_match(ranges, GiftPrice(gift_data), TotalAmount(gift_data))

\* the upgradable rule applied whatever the option says
evaluate_gift_IgnoresFlag(ranges, only_upgradable, gift_data) ==
    IF IsSoldOut(gift_data) THEN Excluded("sold_out")
    ELSE IF ~IsLimited(gift_data) THEN Excluded("non_limited_blocked")
    ELSE IF ~IsUpgradable(gift_data) THEN Excluded("non_upgradable_blocked")
    ELSE evaluate_range_match(ranges, GiftPrice(gift_data), TotalAmount(gift_data))

\* the exclusion rules without the sold-out rule
evaluate_gift_SoldOutAllowed(ranges, only_upgradable, gift_data) ==
    IF ~IsLimited(gift_data) THEN Excluded("non_limited_blocked")
    ELSE IF only_upgradable /\ ~IsUpgradable(gift_data)
    THEN Excluded("non_upgradable_blocked")
    ELSE evaluate_range_match(ranges, GiftPrice(gift_data), TotalAmount(gift_data))

\* GiftProcessor.evaluate_gift: the exclusion rules in their dict order, the
\* first that fires wins; none fires: the range match
evaluate_gift(ranges, only_upgradable, gift_data) ==
    LET price         == Get(gift_data, "price", 0)
        is_limited    == Get(gift_data, "is_limited", FALSE)
        is_sold_out   == Get(gift_data, "is_sold_out", FALSE)
        is_upgradable == "upgrade_price" \in DOMAIN gift_data
        total_amount  == IF is_limited THEN Get(gift_data, "total_amount", 0) ELSE 0
    IN  IF is_sold_out
        THEN [eligible |-> FALSE, data |-> [exclusion_reason |-> "sold_out"]]
        ELSE IF ~is_limited
        THEN [eligible |-> FALSE, data |-> [exclusion_reason |-> "non_limited_blocked"]]
        ELSE IF only_upgradable /\ ~is_upgradable
        THEN [eligible |-> FALSE, data |-> [exclusion_reason |-> "non_upgradable_blocked"]]
        ELSE evaluate_range_match(ranges, price, total_amount)

----------------------------------------------------------------------------
(* app/utils/detector.py: GiftDetector *)

\* largest number read back from history.json
MaxJsonNumber == 100

\* the attributes of a gift that are booleans
BooleanKeys == {"is_limited", "is_sold_out"}

\* json.dump of one gift: every attribute as JSON text, true / false for a
\* boolean and the decimal digits for an integer
json_dump(gift_data) ==
    [key \in DOMAIN gift_data |->
        IF key \in BooleanKeys
        THEN (IF gift_data[key] THEN "true" ELSE "false")
        ELSE ToString(gift_data[key])]

\* the number whose decimal digits the text holds
JsonNumber(text) == CHOOSE n \in 0..MaxJsonNumber : ToString(n) = text

\* json.load of one gift
json_load(object) ==
    [key \in DOMAIN object |->
        IF object[key] = "true" THEN TRUE
        ELSE IF object[key] = "false" THEN FALSE
        ELSE JsonNumber(object[key])]

\* load_gift_history answering every failure to read with the empty dict
load_gift_history_AlwaysEmpty(file) == <<>>

\* GiftDetector.load_gift_history: the file's list keyed by id; a missing
\* file is the empty dict
load_gift_history(file) ==
    IF file = <<>> THEN <<>>
    ELSE dict_by_id([i \in 1..Len(file[1]) |-> json_load(file[1][i])])

\* the history written with nothing but the ids
save_gift_history_IdsOnly(gifts) ==
    << [i \in 1..Len(gifts) |-> json_dump([id |-> gifts[i].id])] >>

\* GiftDetector.save_gift_history: the file holds the JSON text of the list
\* it is given
save_gift_history(gifts) == << [i \in 1..Len(gifts) |-> json_dump(gifts[i])] >>

\* GiftDetector.fetch_current_gifts: (gifts_dict, gift_ids) of the response
fetch_current_gifts(response) ==
    LET gifts_dict == dict_by_id(response)
    IN  [gifts_dict |-> gifts_dict, gift_ids |-> Ids(gifts_dict)]

\* the diff comparing whole gifts instead of ids
NewGifts_ByValue(current, old) ==
    SelectSeq(current, LAMBDA gift_data :
        gift_data \notin {old[i] : i \in 1..Len(old)})

\* run_detection_loop: the gifts of the fetch whose id the history lacks
NewGifts(current, old) ==
    SelectSeq(current, LAMBDA gift_data : gift_data.id \notin IdSet(old))

\* the tally counting a gift only under the first rule that excludes it
categorize_skipped_gifts_FirstOnly(only_upgradable, gift_data) ==
    LET sold_out    == Get(gift_data, "is_sold_out", FALSE)
        non_limited == ~Get(gift_data, "is_limited", FALSE)
    IN  [sold_out_count |-> IF sold_out THEN 1 ELSE 0,
         non_limited_count |-> IF ~sold_out /\ non_limited THEN 1 ELSE 0,
         non_upgradable_count |->
            IF ~sold_out /\ ~non_limited /\ only_upgradable
               /\ "upgrade_price" \notin DOMAIN gift_data THEN 1 ELSE 0]

\* GiftDetector.categorize_skipped_gifts
categorize_skipped_gifts(only_upgradable, gift_data) ==
    [sold_out_count |-> IF Get(gift_data, "is_sold_out", FALSE) THEN 1 ELSE 0,
     non_limited_count |-> IF Get(gift_data, "is_limited", FALSE) THEN 0 ELSE 1,
     non_upgradable_count |->
        IF only_upgradable /\ "upgrade_price" \notin DOMAIN gift_data THEN 1 ELSE 0]

\* _process_new_gifts: the skip counts summed over the new gifts
RECURSIVE SkipCounts(_, _)
SkipCounts(only_upgradable, gifts) ==
    IF gifts = <<>>
    THEN [sold_out_count |-> 0, non_limited_count |-> 0, non_upgradable_count |-> 0]
    ELSE LET rest == SkipCounts(only_upgradable, Tail(gifts))
             one  == categorize_skipped_gifts(only_upgradable, Head(gifts))
         IN  [sold_out_count |-> rest.sold_out_count + one.sold_out_count,
              non_limited_count |-> rest.non_limited_count + one.non_limited_count,
              non_upgradable_count |->
                  rest.non_upgradable_count + one.non_upgradable_count]

\* the position counted from the front of the list
WithPosition_FromFront(gift_data, ids) ==
    [position |-> IndexOf(ids, gift_data.id) + 1] @@ gift_data

\* prioritize_gifts, first loop: gift_data["position"] = len(ids) - ids.index(id)
WithPosition(gift_data, ids) ==
    [position |-> Len(ids) - IndexOf(ids, gift_data.id)] @@ gift_data

\* the low-supply sort key with the position ahead of the supply
SupplyKey_PositionFirst(gift_data) ==
    IF Get(gift_data, "is_limited", FALSE) /\ "total_amount" \in DOMAIN gift_data
    THEN <<0, gift_data.position, gift_data.total_amount>>
    ELSE <<1, gift_data.position, 0>>

\* the low-supply sort key (total_amount or inf, position); inf is <<1, 0>>
SupplyKey(gift_data) ==
    IF Get(gift_data, "is_limited", FALSE) /\ "total_amount" \in DOMAIN gift_data
    THEN <<0, gift_data.total_amount, gift_data.position>>
    ELSE <<1, 0, gift_data.position>>

\* the low-supply mode returning only the gifts that have a supply
prioritize_gifts_LimitedOnly(low_supply, gifts, ids) ==
    LET positioned == [i \in 1..Len(gifts) |-> WithPosition(gifts[i], ids)]
        position_sorted ==
            sorted(positioned, [i \in 1..Len(gifts) |-> <<positioned[i].position>>])
        limited == SelectSeq(position_sorted, LAMBDA g : SupplyKey(g)[1] = 0)
    IN  IF ~low_supply
        THEN position_sorted
        ELSE sorted(limited, [i \in 1..Len(limited) |-> SupplyKey(limited[i])])

\* GiftDetector.prioritize_gifts
prioritize_gifts(low_supply, gifts, ids) ==
    LET positioned == [i \in 1..Len(gifts) |-> WithPosition(gifts[i], ids)]
        position_sorted ==
            sorted(positioned, [i \in 1..Len(gifts) |-> <<positioned[i].position>>])
    IN  IF ~low_supply
        THEN position_sorted
        ELSE sorted(position_sorted,
                    [i \in 1..Len(gifts) |-> SupplyKey(position_sorted[i])])

----------------------------------------------------------------------------
(* Events a callback step leaves in log *)

\* a remote lookup: get_chat, get_available_gifts, get_stars_balance
Call(name) == [t |-> "call", name |-> name]
\* the balance lookup of buy_gift and whether it returned (ok) or raised
Lookup(name, ok) == [t |-> "lookup", name |-> name, ok |-> ok]
\* app.send_gift(chat_id, gift_id) is issued for the unit-th gift
SendGift(chat_id, gift_id, unit) ==
    [t |-> "send_gift", chat_id |-> chat_id, gift_id |-> gift_id, unit |-> unit]
\* the purchase call concluded: "ok", "rpc_error" or "exception"
Result(how) == [t |-> "result", how |-> how]
\* asyncio.sleep(0.5) of _distribute_gifts
Delay == [t |-> "sleep"]

\* app.notifications.send_notification(app, gift_id, **kwargs): one
\* notification carrying the keyword arguments
send_notification(gift_id, kwargs) ==
    << [t |-> "notification", gift_id |-> gift_id, data |-> kwargs] >>

\* app.notifications.send_summary_message(app, **skip_counts)
send_summary_message(counts) == << counts >>

----------------------------------------------------------------------------
(* app/utils/helper.py, app/errors.py, app/purchase.py *)

\* UserHelper.get_recipient_info: the reference used in the log lines and the
\* username; the chat id as text and no username when get_chat raises
get_recipient_info(chat, chat_id) ==
    IF ~chat.ok THEN [recipient_info |-> ToString(chat_id), username |-> ""]
    ELSE LET name == IF chat.username # <<>> THEN chat.username[1] ELSE ""
         IN  [recipient_info |-> IF name # "" THEN "@" \o name ELSE ToString(chat_id),
              username |-> name]

\* the balance lookup with its failure not turned into 0
get_user_balance_IgnoresFailure(ok, stars) == stars

\* UserHelper.get_user_balance: the balance, or 0 when the lookup raises
get_user_balance(ok, stars) == IF ok THEN stars ELSE 0

\* the price the gift had in the catalog it was detected in
get_gift_price_AtDetection(response, gift_id) ==
    Get(prioritized_gifts[idx], "price", 0)

\* GiftPurchaser._get_gift_price: the price of the first listed gift with
\* the id; 0 when none is listed or the lookup raises
get_gift_price(response, gift_id) ==
    IF ~response.ok THEN 0
    ELSE LET listed == SelectSeq(response.gifts, LAMBDA gift : gift.id = gift_id)
         IN  IF listed # <<>> THEN listed[1].price ELSE 0

\* the affordable quantity with the division rounding up
MaxAffordable_RoundsUp(requested, stars, price) ==
    IF price > 0 THEN Min(requested, (stars + price - 1) \div price) ELSE requested

\* buy_gift: the maximum affordable quantity
MaxAffordable(requested, stars, price) ==
    IF price > 0 THEN Min(requested, stars \div price) ELSE requested

\* the insufficient-balance case never taken
NothingAffordable_Never(affordable) == FALSE

\* buy_gift: the insufficient-balance case
NothingAffordable(affordable) == affordable = 0

\* GiftPurchaser._handle_insufficient_balance
handle_insufficient_balance(gift_id, price, stars, requested_quantity) ==
    send_notification(gift_id,
        [balance_error |-> TRUE, gift_price |-> price * requested_quantity,
         current_balance |-> stars])

\* GiftPurchaser._notify_partial_purchase
notify_partial_purchase(gift_id, requested, purchased, price, remaining_balance) ==
    send_notification(gift_id,
        [partial_purchase |-> TRUE, purchased |-> purchased, requested |-> requested,
         remaining_cost |-> (requested - purchased) * price,
         current_balance |-> remaining_balance])

\* buy_gift after _purchase_gifts returned: the partial-purchase report
buy_gift_tail(gift_id, requested, affordable, price, stars) ==
    IF affordable < requested
    THEN notify_partial_purchase(gift_id, requested, affordable, price, stars)
    ELSE <<>>

\* the unit loop given the requested quantity
UnitsToBuy_Requested(requested, affordable) == requested

\* buy_gift: the quantity handed to _purchase_gifts for the recipient
UnitsToBuy(requested, affordable) == affordable

\* _purchase_gifts: the notification of a unit that was sent
notify_sent(gift_id, chat_id, name, unit, total) ==
    send_notification(gift_id,
        [user_id |-> chat_id, username |-> name, current_gift |-> unit,
         total_gifts |-> total, success_message |-> TRUE])

\* ErrorHandler.handle_gift_error: every handler whose code str(ex) holds
\* sends its notification, then the error text is sent
handle_gift_error(ex, gift_id, chat_id, price, stars) ==
    (IF "BALANCE_TOO_LOW" \in ex
     THEN send_notification(gift_id,
            [balance_error |-> TRUE, gift_price |-> price, current_balance |-> stars])
     ELSE <<>>)
    \o (IF "STARGIFT_USAGE_LIMITED" \in ex
        THEN send_notification(gift_id, [sold_out |-> TRUE]) ELSE <<>>)
    \o (IF "PEER_ID_INVALID" \in ex
        THEN send_notification(gift_id, [peer_id_error |-> TRUE]) ELSE <<>>)
    \o send_notification(gift_id, [error_message |-> [pre |-> TRUE, text |-> ex]])

\* _distribute_gifts, except Exception: the error text is sent
notify_purchase_error(gift_id, ex) ==
    send_notification(gift_id, [error_message |-> [pre |-> FALSE, text |-> ex]])

\* range(1, quantity + 2): one unit too many
HasNextUnit_OneMore(unit, total) == unit <= total

\* _purchase_gifts: range(1, quantity + 1) has a unit after this one
HasNextUnit(unit, total) == unit < total

\* a failure leaving the for loop
HasNextRecipient_StopsOnFailure(k, list, failures) == k < Len(list) /\ failures = {}

\* _distribute_gifts: the for loop has a recipient after the k-th, whatever
\* happened to the recipients so far (failures holds those whose call failed)
HasNextRecipient(k, list, failures) == k < Len(list)

\* the history written only when the pass found new gifts
HistoryAfterCycle_OnlyWhenNew(file, current, new) ==
    IF new = <<>> THEN file ELSE save_gift_history(current)

\* run_detection_loop: the history file after the pass
HistoryAfterCycle(file, current, new) == save_gift_history(current)

\* _distribute_gifts: the recipient the loop visits k-th
RecipientAt(list, k) == list[k]

\* the gifts visited last to first
GiftAt_Reversed(prioritized, k) == prioritized[Len(prioritized) + 1 - k]

\* the loop handing the first gift to the callback every time
GiftAt_First(prioritized, k) == prioritized[1]

\* _process_new_gifts: the gift the loop visits k-th
GiftAt(prioritized, k) == prioritized[k]

----------------------------------------------------------------------------
(* Initial state *)

\* the locals of one cycle before the cycle has run
CycleIdle ==
    /\ old_gifts = <<>> /\ current_gifts = <<>> /\ gift_ids = <<>>
    /\ new_gifts = <<>> /\ prioritized_gifts = <<>> /\ idx = 0
    /\ skip_counts = [sold_out_count |-> 0, non_limited_count |-> 0,
                      non_upgradable_count |-> 0]
    /\ quantity = 0 /\ recipients = <<>> /\ ridx = 0
    /\ username = ""
    /\ gift_price = 0 /\ current_balance = 0 /\ max_affordable = 0 /\ current_gift = 0
    /\ fetched = <<>> /\ called = <<>> /\ attempted = <<>> /\ failed = {}
    /\ lastPurchase = <<>> /\ log = <<>> /\ summary = <<>>
    /\ delayed = TRUE /\ partial_reports = 0
    /\ purchase_failed = FALSE /\ first_affordable = <<>> /\ listed_prices = {}

\* the same locals, set at the end of a cycle
CycleReset ==
    /\ old_gifts' = <<>> /\ current_gifts' = <<>> /\ gift_ids' = <<>>
    /\ new_gifts' = <<>> /\ prioritized_gifts' = <<>> /\ idx' = 0
    /\ skip_counts' = [sold_out_count |-> 0, non_limited_count |-> 0,
                       non_upgradable_count |-> 0]
    /\ quantity' = 0 /\ recipients' = <<>> /\ ridx' = 0
    /\ username' = ""
    /\ gift_price' = 0 /\ current_balance' = 0 /\ max_affordable' = 0
    /\ current_gift' = 0
    /\ fetched' = <<>> /\ called' = <<>> /\ attempted' = <<>> /\ failed' = {}
    /\ lastPurchase' = <<>> /\ log' = <<>> /\ summary' = <<>>
    /\ delayed' = TRUE /\ partial_reports' = 0
    /\ first_affordable' = <<>> /\ listed_prices' = {}

PureIdle == fn = "none" /\ args = <<>> /\ ret = <<>>

\* list(current_gifts.values()) at the end of a cycle: the fetched catalog,
\* the gifts that were new carrying the position prioritize_gifts gave them
Snapshot(catalog, new) ==
    [i \in 1..Len(catalog) |->
        IF catalog[i].id \in new THEN WithPosition(catalog[i], Ids(catalog))
        ELSE catalog[i]]

\* data/json/history.json when the program starts: missing, or what the last
\* save_gift_history of an earlier run wrote: the catalog its last pass
\* fetched, any of its gifts new in that pass and so carrying a position
InitialHistories ==
    { <<>> } \cup UNION { { save_gift_history(Snapshot(c, new)) :
                               new \in SUBSET IdSet(c) } : c \in Catalogs }

\* Application.run has started the client; no pass of this run has fetched
\* the catalog yet
Init ==
    /\ PURCHASE_ONLY_UPGRADABLE_GIFTS \in BOOLEAN
    /\ PRIORITIZE_LOW_SUPPLY \in BOOLEAN
    /\ balance \in InitialBalances
    /\ history \in InitialHistories
    /\ pc = "poll"
    /\ CycleIdle
    /\ prevFetched = <<>> /\ prevSnapshot = history
    /\ cancelled_at = "none"
    /\ cycle_balance = balance
    /\ PureIdle

----------------------------------------------------------------------------
(* GiftMonitor.run_detection_loop *)

\* One pass of the loop up to the processing of the new gifts: load the
\* history, fetch the catalog, diff; with new gifts, the prologue of
\* _process_new_gifts (skip counts, priorities)
run_detection_loop ==
    /\ pc = "poll"
    /\ \E response \in GiftResponses :
        /\ response.ok
        /\ LET old == load_gift_history(history)
               cur == fetch_current_gifts(response.gifts)
               new == NewGifts(cur.gifts_dict, old)
           IN  /\ fetched' = response.gifts
               /\ old_gifts' = old
               /\ gift_ids' = cur.gift_ids
               /\ purchase_failed' = FALSE
               /\ IF new # <<>>
                  THEN /\ skip_counts' = SkipCounts(PURCHASE_ONLY_UPGRADABLE_GIFTS, new)
                       /\ prioritized_gifts' =
                            prioritize_gifts(PRIORITIZE_LOW_SUPPLY, new, cur.gift_ids)
                       \* prioritize_gifts writes "position" into the dicts that
                       \* new_gifts and current_gifts share
                       /\ new_gifts' =
                            [i \in 1..Len(new) |-> WithPosition(new[i], cur.gift_ids)]
                       /\ current_gifts' =
                            [i \in 1..Len(cur.gifts_dict) |->
                                IF cur.gifts_dict[i].id \in IdSet(new)
                                THEN WithPosition(cur.gifts_dict[i], cur.gift_ids)
                                ELSE cur.gifts_dict[i]]
                       /\ idx' = 1
                       /\ pc' = "next_gift"
                  ELSE /\ new_gifts' = <<>>
                       /\ current_gifts' = cur.gifts_dict
                       /\ pc' = "save"
                       /\ UNCHANGED <<skip_counts, prioritized_gifts, idx>>
    /\ UNCHANGED <<configVars, balance, history, cbVars, buyVars, prevFetched,
                   prevSnapshot, called, attempted, failed, lastPurchase, log,
                   summary, spacingObs, attemptObs, cancelled_at, cycle_balance,
                   pureVars>>

\* app.get_available_gifts() raises in fetch_current_gifts: nothing in the
\* loop catches it, Application.main logs it and the process ends
run_detection_loop_raises ==
    /\ pc = "poll"
    /\ \E response \in GiftResponses : ~response.ok
    /\ old_gifts' = load_gift_history(history)
    /\ pc' = "terminated"
    /\ purchase_failed' = FALSE
    /\ UNCHANGED <<configVars, balance, history, current_gifts, gift_ids, new_gifts,
                   skip_counts, prioritized_gifts, idx, cbVars, buyVars, cycleObs,
                   called, attempted, failed, lastPurchase, log, summary,
                   spacingObs, attemptObs, cancelled_at, cycle_balance, pureVars>>

\* save_gift_history(list(current_gifts.values()))
save_history ==
    /\ pc = "save"
    /\ history' = HistoryAfterCycle(history, current_gifts, new_gifts)
    /\ pc' = "sleep"
    /\ UNCHANGED <<configVars, balance, old_gifts, current_gifts, gift_ids, new_gifts,
                   skip_counts, prioritized_gifts, idx, cbVars, buyVars, obsVars,
                   pureVars>>

\* asyncio.sleep(config.INTERVAL); the next pass starts with fresh locals
sleep_interval ==
    /\ pc = "sleep"
    /\ pc' = "poll"
    /\ prevFetched' = <<fetched>>
    /\ prevSnapshot' = history
    /\ CycleReset
    /\ cycle_balance' = balance
    /\ UNCHANGED <<configVars, balance, history, purchase_failed, cancelled_at,
                   pureVars>>

----------------------------------------------------------------------------
(* _process_new_gifts, process_new_gift, _distribute_gifts *)

gift_id == GiftAt(prioritized_gifts, idx).id
chat_id == RecipientAt(recipients, ridx)

\* The callback is invoked for the next prioritized gift: evaluate it; not
\* eligible, send the notification; eligible, start the distribution
process_new_gift ==
    /\ pc = "next_gift"
    /\ idx <= Len(prioritized_gifts)
    /\ LET gift_data == [id |-> gift_id] @@ GiftAt(prioritized_gifts, idx)
           verdict   == evaluate_gift(GIFT_RANGES, PURCHASE_ONLY_UPGRADABLE_GIFTS,
                                      gift_data)
       IN  /\ called' = Append(called, gift_data.id)
           /\ attempted' = <<>>
           /\ failed' = {}
           /\ partial_reports' = 0
           /\ first_affordable' = <<>>
           /\ listed_prices' = {}
           /\ IF ~verdict.eligible
              THEN /\ log' = send_notification(gift_data.id, verdict.data)
                   /\ quantity' = 0 /\ recipients' = <<>> /\ ridx' = 0
                   /\ idx' = idx + 1
                   /\ pc' = "next_gift"
              ELSE /\ log' = <<>>
                   /\ quantity' = verdict.data.quantity
                   /\ recipients' = verdict.data.recipients
                   /\ IF verdict.data.recipients # <<>>
                      THEN ridx' = 1 /\ idx' = idx /\ pc' = "buy_gift"
                      ELSE ridx' = 0 /\ idx' = idx + 1 /\ pc' = "next_gift"
    /\ UNCHANGED <<configVars, balance, history, loopData, buyVars, cycleObs,
                   lastPurchase, summary, delayed, purchase_failed, cancelled_at,
                   cycle_balance, pureVars>>

\* Every prioritized gift was handed to the callback: send the summary and
\* return to the loop; the locals of the callback are gone
process_new_gifts_done ==
    /\ pc = "next_gift"
    /\ idx > Len(prioritized_gifts)
    /\ summary' = summary \o send_summary_message(skip_counts)
    /\ pc' = "save"
    /\ quantity' = 0 /\ recipients' = <<>> /\ ridx' = 0
    /\ username' = ""
    /\ gift_price' = 0 /\ current_balance' = 0 /\ max_affordable' = 0
    /\ current_gift' = 0
    /\ attempted' = <<>> /\ failed' = {} /\ log' = <<>>
    /\ partial_reports' = 0
    /\ first_affordable' = <<>>
    /\ listed_prices' = {}
    /\ UNCHANGED <<configVars, balance, history, loopData, idx, cycleObs, called,
                   lastPurchase, delayed, purchase_failed, cancelled_at,
                   cycle_balance, pureVars>>

\* asyncio.sleep(0.5) after a recipient, then the next recipient or, after
\* the last, the return to _process_new_gifts
distribute_delay ==
    /\ pc = "delay"
    /\ log' = Append(log, Delay)
    /\ delayed' = TRUE
    /\ IF HasNextRecipient(ridx, recipients, failed)
       THEN ridx' = ridx + 1 /\ idx' = idx /\ pc' = "buy_gift"
       ELSE ridx' = ridx /\ idx' = idx + 1 /\ pc' = "next_gift"
    /\ UNCHANGED <<configVars, balance, history, loopData, quantity, recipients,
                   buyVars, cycleObs, called, attempted, failed, lastPurchase,
                   summary, partial_reports, purchase_failed, attemptObs,
                   cancelled_at, cycle_balance, pureVars>>

----------------------------------------------------------------------------
(* GiftPurchaser.buy_gift, _purchase_gifts *)

\* What the platform charges for the gift when the purchase goes through
Charges(id) ==
    UNION { { c[k].price : k \in { j \in 1..Len(c) : c[j].id = id } } : c \in Catalogs }

\* the prices under which the answer to get_available_gifts lists the gift
Listed(response, id) ==
    IF ~response.ok THEN {}
    ELSE { response.gifts[k].price :
             k \in { j \in 1..Len(response.gifts) : response.gifts[j].id = id } }

\* a failed purchase call followed by another purchase call for the
\* recipient
OnPurchaseFailure_Retries(how) == "send_gift"

\* a failure of the purchase call leaving _distribute_gifts when it is not
\* an RPCError
OnPurchaseFailure_Propagates(how) == IF how = "rpc_error" THEN "delay" ELSE "terminated"

\* where a failed purchase call leaves the flow: the RPCError is handled in
\* _purchase_gifts (break), any other exception in _distribute_gifts (except
\* Exception); both go on to asyncio.sleep(0.5)
OnPurchaseFailure(how) == "delay"

\* the awaits of the loop: the catalog fetch, the notification of a gift
\* that is not eligible and the summary message, the lookups of buy_gift,
\* the purchase call, asyncio.sleep(0.5), asyncio.sleep(config.INTERVAL)
SuspensionPoints == {"poll", "next_gift", "buy_gift", "sending", "delay", "sleep"}

\* the coroutine is suspended in an await: between two gifts only when the
\* next step sends a message (the summary after the last gift, the
\* notification of a gift evaluate_gift rejects); an eligible gift reaches
\* its first await in buy_gift
Suspended ==
    /\ pc \in SuspensionPoints
    /\ pc = "next_gift" =>
          IF idx > Len(prioritized_gifts) THEN TRUE
          ELSE ~evaluate_gift(GIFT_RANGES, PURCHASE_ONLY_UPGRADABLE_GIFTS,
                              GiftAt(prioritized_gifts, idx)).eligible

\* buy_gift up to the first purchase call: the three lookups, the affordable
\* quantity, and the insufficient-balance report when it is 0
buy_gift ==
    /\ pc = "buy_gift"
    /\ \E chat \in ChatResponses, price_response \in GiftResponses,
          balance_ok \in BOOLEAN :
        LET price      == get_gift_price(price_response, gift_id)
            stars      == get_user_balance(balance_ok, balance)
            affordable == MaxAffordable(quantity, stars, price)
            lookups    == << Call("get_chat"), Call("get_available_gifts"),
                             Lookup("get_stars_balance", balance_ok) >>
        IN  /\ username' = get_recipient_info(chat, chat_id).username
            /\ gift_price' = price
            /\ current_balance' = stars
            /\ max_affordable' = affordable
            /\ first_affordable' =
                  IF first_affordable = <<>> THEN <<affordable>> ELSE first_affordable
            /\ listed_prices' = Listed(price_response, gift_id)
            /\ IF NothingAffordable(affordable)
               THEN /\ log' = lookups \o
                              handle_insufficient_balance(gift_id, price, stars, quantity)
                    /\ current_gift' = 0
                    /\ partial_reports' = partial_reports
                    /\ pc' = "delay"
               ELSE IF 1 <= affordable
               THEN /\ log' = lookups
                    /\ current_gift' = 1
                    /\ partial_reports' = partial_reports
                    /\ pc' = "send_gift"
               ELSE \* range(1, affordable + 1) is empty
                    /\ log' = lookups \o
                              buy_gift_tail(gift_id, quantity, affordable, price, stars)
                    /\ current_gift' = 0
                    /\ partial_reports' = partial_reports +
                          Len(buy_gift_tail(gift_id, quantity, affordable, price, stars))
                    /\ pc' = "delay"
    /\ attempted' = Append(attempted, chat_id)
    /\ UNCHANGED <<configVars, balance, history, loopData, idx, cbVars, cycleObs,
                   called, failed, lastPurchase, summary, delayed, purchase_failed,
                   cancelled_at, cycle_balance, pureVars>>

\* _purchase_gifts issues app.send_gift for the current unit
send_gift_call ==
    /\ pc = "send_gift"
    /\ log' = Append(log, SendGift(chat_id, gift_id, current_gift))
    /\ lastPurchase' =
          << [gift_id |-> gift_id, chat_id |-> chat_id, unit |-> current_gift] >>
    /\ delayed' = FALSE
    /\ pc' = "sending"
    /\ UNCHANGED <<configVars, balance, history, loopData, idx, cbVars, buyVars,
                   cycleObs, called, attempted, failed, summary, partial_reports,
                   purchase_failed, attemptObs, cancelled_at, cycle_balance,
                   pureVars>>

\* send_gift returns: the unit is reported; after the last unit
\* _purchase_gifts returns and buy_gift finishes
send_gift_returns ==
    /\ pc = "sending"
    /\ \E charge \in Charges(gift_id) :
        /\ charge <= balance
        /\ balance' = balance - charge
    /\ IF HasNextUnit(current_gift, UnitsToBuy(quantity, max_affordable))
       THEN /\ log' = log \o <<Result("ok")>>
                      \o notify_sent(gift_id, chat_id, username, current_gift,
                                     UnitsToBuy(quantity, max_affordable))
            /\ current_gift' = current_gift + 1
            /\ partial_reports' = partial_reports
            /\ pc' = "send_gift"
       ELSE /\ log' = log \o <<Result("ok")>>
                      \o notify_sent(gift_id, chat_id, username, current_gift,
                                     UnitsToBuy(quantity, max_affordable))
                      \o buy_gift_tail(gift_id, quantity, max_affordable, gift_price,
                                       current_balance)
            /\ current_gift' = current_gift
            /\ partial_reports' = partial_reports +
                  Len(buy_gift_tail(gift_id, quantity, max_affordable, gift_price,
                                    current_balance))
            /\ pc' = "delay"
    /\ UNCHANGED <<configVars, history, loopData, idx, cbVars, username, gift_price,
                   current_balance, max_affordable, cycleObs, called, attempted,
                   failed, lastPurchase, summary, delayed, purchase_failed,
                   attemptObs, cancelled_at, cycle_balance, pureVars>>

\* send_gift raises an RPCError: balance and price are looked up, the error
\* is handled, the loop breaks and buy_gift finishes
send_gift_rpc_error ==
    /\ pc = "sending"
    /\ \E ex \in RpcErrors, balance_ok \in BOOLEAN, price_response \in GiftResponses :
        log' = log \o <<Result("rpc_error"), Call("get_stars_balance"),
                        Call("get_available_gifts")>>
               \o handle_gift_error(ex, gift_id, chat_id,
                                    get_gift_price(price_response, gift_id),
                                    get_user_balance(balance_ok, balance))
               \o buy_gift_tail(gift_id, quantity, max_affordable, gift_price,
                                current_balance)
    /\ partial_reports' = partial_reports +
          Len(buy_gift_tail(gift_id, quantity, max_affordable, gift_price,
                            current_balance))
    /\ failed' = failed \cup {chat_id}
    /\ purchase_failed' = TRUE
    /\ pc' = OnPurchaseFailure("rpc_error")
    /\ UNCHANGED <<configVars, balance, history, loopData, idx, cbVars, buyVars,
                   cycleObs, called, attempted, lastPurchase, summary, delayed,
                   attemptObs, cancelled_at, cycle_balance, pureVars>>

\* send_gift raises another exception: it leaves buy_gift and
\* _distribute_gifts reports it
send_gift_exception ==
    /\ pc = "sending"
    /\ log' = log \o <<Result("exception")>> \o notify_purchase_error(gift_id, {})
    /\ failed' = failed \cup {chat_id}
    /\ purchase_failed' = TRUE
    /\ pc' = OnPurchaseFailure("exception")
    /\ UNCHANGED <<configVars, balance, history, loopData, idx, cbVars, buyVars,
                   cycleObs, called, attempted, lastPurchase, summary, spacingObs,
                   attemptObs, cancelled_at, cycle_balance, pureVars>>

\* The operator interrupts the process (asyncio.run cancels the task,
\* Application.main catches KeyboardInterrupt): the coroutine is left at the
\* await it is suspended in, no handler of the loop catches the
\* cancellation; a purchase call in flight may or may not have been charged,
\* a message being sent is not recorded as sent
interrupt ==
    /\ Suspended
    /\ pc' = "cancelled"
    /\ cancelled_at' = pc
    /\ balance' \in {balance} \cup
          (IF pc = "sending"
           THEN {balance - charge : charge \in {c \in Charges(gift_id) : c <= balance}}
           ELSE {})
    /\ cycle_balance' = balance'
    /\ CycleReset
    /\ purchase_failed' = FALSE
    /\ UNCHANGED <<configVars, history, prevFetched, prevSnapshot, pureVars>>

----------------------------------------------------------------------------
(* Specification of the detection loop *)

Next ==
    \/ run_detection_loop
    \/ run_detection_loop_raises
    \/ process_new_gift
    \/ process_new_gifts_done
    \/ buy_gift
    \/ send_gift_call
    \/ send_gift_returns
    \/ send_gift_rpc_error
    \/ send_gift_exception
    \/ distribute_delay
    \/ save_history
    \/ sleep_interval
    \/ interrupt

Spec == Init /\ [][Next]_vars

----------------------------------------------------------------------------
(* Reading the observations *)

IsSendGift(e) == e.t = "send_gift"
IsResult(e) == e.t = "result"
IsFailure(e) == e.t = "result" /\ e.how # "ok"
IsNotification(e, key) == e.t = "notification" /\ key \in DOMAIN e.data

SendGifts == SelectSeq(log, IsSendGift)
Notifications(key) == SelectSeq(log, LAMBDA e : IsNotification(e, key))

\* ids of the history file; none when the file is missing
FileIds(file) ==
    IF file = <<>> THEN {} ELSE {JsonNumber(file[1][i].id) : i \in 1..Len(file[1])}

\* the pass has fetched and not yet written the history
Processing == pc \in {"next_gift", "buy_gift", "send_gift", "sending", "delay", "save"}
\* buy_gift has computed the affordable quantity for the current recipient
InAttempt == pc \in {"send_gift", "sending", "delay"}

NoDuplicates(seq) == \A i, j \in 1..Len(seq) : seq[i] = seq[j] => i = j
IsPrefix(p, seq) == Len(p) <= Len(seq) /\ p = SubSeq(seq, 1, Len(p))

----------------------------------------------------------------------------
(* Purchase orchestrator *)

\* C1: in every purchase attempt the affordable quantity is
\* min(requested, balance // price) when the looked-up price is positive (the
\* largest a <= requested with a * price <= balance), and the requested
\* quantity when the looked-up price is 0.
C1_AffordableQuantity ==
    InAttempt =>
        IF gift_price > 0
        THEN /\ max_affordable <= quantity
             /\ max_affordable * gift_price <= current_balance
             /\ max_affordable < quantity =>
                    (max_affordable + 1) * gift_price > current_balance
        ELSE max_affordable = quantity

\* balance 25, price 10, requested 5: affordable 2
C1_Witness ==
    /\ InAttempt
    /\ current_balance = 25 /\ gift_price = 10 /\ quantity = 5
    /\ max_affordable = 2

\* C2: a recipient attempt with 0 < affordable in which no purchase call
\* failed issued exactly `affordable` purchase calls, one per unit, and when
\* affordable < requested they are followed by one partial-purchase report
\* whose shortfall is (requested - affordable) * price.
C2_UnitsThenPartialReport ==
    (pc = "delay" /\ max_affordable > 0 /\ chat_id \notin failed) =>
        /\ Len(SendGifts) = max_affordable
        /\ \A u \in 1..Len(SendGifts) :
              SendGifts[u] = SendGift(chat_id, gift_id, u)
        /\ max_affordable < quantity =>
              /\ Len(Notifications("partial_purchase")) = 1
              /\ IsNotification(log[Len(log)], "partial_purchase")
              /\ log[Len(log)].data.remaining_cost =
                    (quantity - max_affordable) * gift_price

\* balance 25, price 10, requested 5: 2 calls, then the report with shortfall 30
C2_Witness ==
    /\ pc = "delay" /\ chat_id \notin failed
    /\ current_balance = 25 /\ gift_price = 10 /\ quantity = 5
    /\ Len(SendGifts) = 2
    /\ IsNotification(log[Len(log)], "partial_purchase")
    /\ log[Len(log)].data.remaining_cost = 30

\* C3: when the affordable quantity is 0 no purchase call is issued, one
\* insufficient-balance report is emitted and no partial-purchase report.
C3_NothingAffordable ==
    (pc = "delay" /\ max_affordable = 0) =>
        /\ SendGifts = <<>>
        /\ Len(Notifications("balance_error")) = 1
        /\ Notifications("partial_purchase") = <<>>

\* balance 5, price 10: affordable 0
C3_Witness ==
    /\ pc = "delay" /\ max_affordable = 0
    /\ current_balance = 5 /\ gift_price = 10
    /\ Len(Notifications("balance_error")) = 1

\* C4: a failed purchase call is recipient-scoped: no purchase call follows
\* it for that recipient and gift, the error is reported, and every later
\* recipient of the gift is still attempted.
C4_FailureIsRecipientScoped ==
    /\ \A i \in 1..Len(log) :
          IsFailure(log[i]) =>
              /\ \A j \in (i + 1)..Len(log) : ~IsSendGift(log[j])
              /\ \E j \in (i + 1)..Len(log) : IsNotification(log[j], "error_message")
    /\ pc \in {"send_gift", "sending"} => chat_id \notin failed
    /\ IsPrefix(attempted, recipients)
    /\ pc = "next_gift" => attempted = recipients

\* _distribute_gifts was handed two recipients; the call for the first
\* failed and the second was attempted
C4_Witness ==
    /\ pc = "next_gift"
    /\ recipients = <<101, 102>>
    /\ 101 \in failed
    /\ attempted = <<101, 102>>

----------------------------------------------------------------------------
(* Detection loop *)

\* ids the pass found new: fetched and not in the history it loaded
NewIds == IdSet(fetched) \ FileIds(prevSnapshot)

\* C5: the new gifts of a pass are exactly the gifts whose id is in the
\* fetched catalog and not in the history file, whatever their other
\* attributes; a missing file is the empty history.
C5_NewIsFetchedMinusHistory ==
    Processing =>
        /\ IdSet(new_gifts) = IdSet(fetched) \ FileIds(history)
        /\ NoDuplicates(Ids(new_gifts))
        /\ history = <<>> => IdSet(new_gifts) = IdSet(fetched)

\* id 1 is in the history with price 10 and fetched with price 30: not new,
\* while id 3 is
C5_Witness ==
    /\ Processing
    /\ history # <<>>
    /\ \E i \in 1..Len(history[1]) :
          history[1][i].id = "1" /\ history[1][i].price = "10"
    /\ \E i \in 1..Len(fetched) : fetched[i].id = 1 /\ fetched[i].price = 30
    /\ IdSet(new_gifts) = {3}

\* C6: a pass that fetches the catalog the previous pass fetched invokes no
\* callback and issues no purchase call, and leaves the history with the
\* ids it had.
C6_SecondPassIsIdle ==
    (pc \in {"next_gift", "buy_gift", "send_gift", "sending", "delay", "save", "sleep"}
        /\ prevFetched = <<fetched>>) =>
        /\ called = <<>>
        /\ lastPurchase = <<>>
        /\ pc = "sleep" => FileIds(history) = FileIds(prevSnapshot)

\* the second of two passes over the catalog <<giftB, giftA>> has finished
C6_Witness ==
    /\ pc = "sleep"
    /\ prevFetched = <<fetched>>
    /\ Len(fetched) = 2

\* C7: a completed pass has written the history, also without new gifts,
\* and the file then holds exactly the ids of the fetched catalog.
C7_HistoryReplaced ==
    pc = "sleep" =>
        /\ history # <<>>
        /\ FileIds(history) = IdSet(fetched)
        /\ Len(history[1]) = Cardinality(IdSet(fetched))

\* a pass without new gifts dropped an id that left the catalog
C7_Witness ==
    /\ pc = "sleep"
    /\ new_gifts = <<>>
    /\ FileIds(prevSnapshot) \ FileIds(history) # {}

\* C8: the callback is invoked once for every new id and for no other id;
\* a pass without new ids invokes no callback, issues no purchase call and
\* sends no summary.
C8_CallbackOncePerNewGift ==
    /\ Processing \/ pc = "sleep" =>
          /\ NoDuplicates(called)
          /\ \A i \in 1..Len(called) : called[i] \in NewIds
    /\ pc \in {"save", "sleep"} =>
          /\ {called[i] : i \in 1..Len(called)} = NewIds
          /\ NewIds = {} => (lastPurchase = <<>> /\ summary = <<>>)
          /\ NewIds # {} => Len(summary) = 1

\* two new gifts, the callback ran for both
C8_Witness ==
    /\ pc = "save"
    /\ Len(called) = 2
    /\ Len(summary) = 1

\* C9: processing is sequential and ordered: gifts in the prioritized order,
\* recipients in the configured order, units in increasing order, every
\* purchase call concluded before anything else happens, and no other gift
\* handled while a recipient of the current gift is in progress.
C9_SequentialOrder ==
    /\ IsPrefix(called, Ids(prioritized_gifts))
    /\ pc \in {"buy_gift", "send_gift", "sending", "delay"} =>
          /\ Len(called) = idx
          /\ IsPrefix(attempted, recipients)
          /\ Len(attempted) = IF pc = "buy_gift" THEN ridx - 1 ELSE ridx
    /\ \A u \in 1..Len(SendGifts) :
          /\ SendGifts[u].unit = u
          /\ SendGifts[u].chat_id = attempted[Len(attempted)]
          /\ SendGifts[u].gift_id = called[Len(called)]
    /\ \A i \in 1..Len(log) :
          IsSendGift(log[i]) =>
              IF i = Len(log) THEN pc = "sending" ELSE IsResult(log[i + 1])
    /\ pc = "sending" => IsSendGift(log[Len(log)])

\* the first gift of the pass went to its recipient; the second unit of the
\* second gift is in flight for the recipient of its range
C9_Witness ==
    /\ pc = "sending"
    /\ called = <<2, 1>>
    /\ lastPurchase = << [gift_id |-> 1, chat_id |-> 101, unit |-> 2] >>
    /\ attempted = <<101>>
    /\ Len(SendGifts) = 2

----------------------------------------------------------------------------
(* Range matcher on its own: get_matching_range applied to bounded inputs *)

\* longest list of configured ranges
MaxRanges == 3

rangeLow  == [min_price |-> 10, max_price |-> 50, supply_limit |-> 100,
              quantity |-> 2, recipients |-> <<101>>]
rangeHigh == [min_price |-> 51, max_price |-> 100, supply_limit |-> 50,
              quantity |-> 1, recipients |-> <<102>>]
rangeMid  == [min_price |-> 30, max_price |-> 60, supply_limit |-> 40,
              quantity |-> 3, recipients |-> <<102>>]
rangeLow4 == [min_price |-> 10, max_price |-> 50, supply_limit |-> 100,
              quantity |-> 4, recipients |-> <<103>>]
RangeUniverse == {rangeLow, rangeHigh, rangeMid, rangeLow4}

PriceInputs == {0, 9, 10, 30, 50, 51, 60, 100, 101}
TotalInputs == {0, 40, 41, 50, 51, 100, 101}

\* the lists of 1 to n elements of S: Config() refuses an empty GIFT_RANGES
SeqsUpTo(S, n) == UNION { [1..k -> S] : k \in 1..n }

\* the detection loop is not running
LoopOff ==
    /\ PURCHASE_ONLY_UPGRADABLE_GIFTS = FALSE /\ PRIORITIZE_LOW_SUPPLY = FALSE
    /\ balance = 0 /\ history = <<>> /\ pc = "off"
    /\ CycleIdle
    /\ prevFetched = <<>> /\ prevSnapshot = <<>>
    /\ cancelled_at = "none"
    /\ cycle_balance = balance

InitRange ==
    /\ LoopOff
    /\ fn = "get_matching_range"
    /\ args \in [ranges : SeqsUpTo(RangeUniverse, MaxRanges),
                 price : PriceInputs, total_amount : TotalInputs]
    /\ ret = <<>>

apply_get_matching_range ==
    /\ fn = "get_matching_range"
    /\ ret = <<>>
    /\ ret' = << get_matching_range(args.ranges, args.price, args.total_amount) >>
    /\ UNCHANGED <<configVars, balance, history, loopVars, cbVars, buyVars, obsVars,
                   fn, args>>

NextRange == apply_get_matching_range

SpecRange == InitRange /\ [][NextRange]_vars

\* indexes of the ranges that hold the price and admit the supply
Matching(ranges, price, total_amount) ==
    { i \in 1..Len(ranges) :
        /\ ranges[i].min_price <= price /\ price <= ranges[i].max_price
        /\ total_amount <= ranges[i].supply_limit }

\* C10: the range matcher returns the quantity and recipients of the
\* lowest-index range with min_price <= price <= max_price and
\* total_amount <= supply_limit, and (false, 0, []) when there is none.
C10_FirstMatchingRange ==
    (fn = "get_matching_range" /\ ret # <<>>) =>
        LET M == Matching(args.ranges, args.price, args.total_amount)
        IN  IF M = {}
            THEN ret[1] = [matched |-> FALSE, quantity |-> 0, recipients |-> <<>>]
            ELSE LET first == CHOOSE i \in M : \A j \in M : i <= j
                 IN  ret[1] = [matched |-> TRUE,
                               quantity |-> args.ranges[first].quantity,
                               recipients |-> args.ranges[first].recipients]

\* two overlapping ranges with different quantities match a price on the
\* upper bound of the first
C10_Witness ==
    /\ fn = "get_matching_range" /\ ret # <<>>
    /\ args.price = 50 /\ args.total_amount = 40
    /\ Len(args.ranges) >= 2
    /\ args.ranges[1] = rangeLow /\ args.ranges[2] = rangeMid
    /\ ret[1].matched /\ ret[1].quantity = 2

----------------------------------------------------------------------------
(* Eligibility evaluator on its own: evaluate_gift applied to bounded inputs *)

\* a dict with the key absent, or the key with one of the values
OptionalKey(key, values) == { <<>> } \cup { key :> v : v \in values }

\* gifts as the serialisation leaves them: every attribute evaluate_gift
\* reads may be absent
GiftInputs ==
    { [id |-> 1] @@ p @@ l @@ s @@ t @@ u :
        p \in OptionalKey("price", {0, 30, 60}),
        l \in OptionalKey("is_limited", BOOLEAN),
        s \in OptionalKey("is_sold_out", BOOLEAN),
        t \in OptionalKey("total_amount", {40, 51}),
        u \in OptionalKey("upgrade_price", {5}) }

RangeLists == { <<rangeHigh>>, <<rangeLow, rangeHigh>>, <<rangeMid, rangeLow>>,
                GIFT_RANGES }

InitEvaluate ==
    /\ LoopOff
    /\ fn = "evaluate_gift"
    /\ args \in [ranges : RangeLists, only_upgradable : BOOLEAN,
                 gift_data : GiftInputs]
    /\ ret = <<>>

apply_evaluate_gift ==
    /\ fn = "evaluate_gift"
    /\ ret = <<>>
    /\ ret' = << evaluate_gift(args.ranges, args.only_upgradable, args.gift_data) >>
    /\ UNCHANGED <<configVars, balance, history, loopVars, cbVars, buyVars, obsVars,
                   fn, args>>

NextEvaluate == apply_evaluate_gift

SpecEvaluate == InitEvaluate /\ [][NextEvaluate]_vars

\* evaluate_gift has returned
Evaluated == fn = "evaluate_gift" /\ ret # <<>>

\* the attributes of the gift handed to evaluate_gift, read off the dict
ArgHas(key) == key \in DOMAIN args.gift_data
ArgSoldOut == ArgHas("is_sold_out") /\ args.gift_data.is_sold_out
ArgLimited == ArgHas("is_limited") /\ args.gift_data.is_limited
ArgPrice == IF ArgHas("price") THEN args.gift_data.price ELSE 0
ArgTotal == IF ArgHas("total_amount") THEN args.gift_data.total_amount ELSE 0

\* C11: a sold-out gift is not eligible and its exclusion is sold_out,
\* whatever its other attributes, the option and the ranges; it is never a
\* range error.
C11_SoldOutFirst ==
    (Evaluated /\ ArgSoldOut) =>
        /\ ~ret[1].eligible
        /\ ret[1].data = [exclusion_reason |-> "sold_out"]
        /\ "range_error" \notin DOMAIN ret[1].data

\* a sold-out, non-limited gift without price that no range holds
C11_Witness ==
    /\ Evaluated /\ ArgSoldOut
    /\ ~ArgHas("is_limited") /\ ~ArgHas("price")
    /\ args.ranges = <<rangeLow, rangeHigh>>
    /\ ret[1].data.exclusion_reason = "sold_out"

\* C12: a gift that is not sold out and not limited is not eligible and its
\* exclusion is non_limited_blocked, whatever its price, upgrade price, the
\* option and the ranges.
C12_NonLimitedSecond ==
    (Evaluated /\ ~ArgSoldOut /\ ~ArgLimited) =>
        /\ ~ret[1].eligible
        /\ ret[1].data = [exclusion_reason |-> "non_limited_blocked"]

\* a non-limited gift without upgrade price, the option set, a range holding
\* its price
C12_Witness ==
    /\ Evaluated /\ ~ArgSoldOut
    /\ ArgHas("is_limited") /\ ~args.gift_data.is_limited
    /\ ~ArgHas("upgrade_price") /\ args.only_upgradable
    /\ ArgPrice = 30 /\ args.ranges = <<rangeLow, rangeHigh>>
    /\ ret[1].data.exclusion_reason = "non_limited_blocked"

\* C13: for a gift that is not sold out and is limited the exclusion is
\* non_upgradable_blocked exactly when the option is set and the gift has no
\* upgrade price.
C13_NonUpgradableThird ==
    (Evaluated /\ ~ArgSoldOut /\ ArgLimited) =>
        ( ( /\ ~ret[1].eligible
            /\ "exclusion_reason" \in DOMAIN ret[1].data
            /\ ret[1].data.exclusion_reason = "non_upgradable_blocked" )
          <=> (args.only_upgradable /\ ~ArgHas("upgrade_price")) )

\* a limited gift without upgrade price: blocked with the option set
C13_Witness ==
    /\ Evaluated /\ ~ArgSoldOut /\ ArgLimited
    /\ args.only_upgradable /\ ~ArgHas("upgrade_price")
    /\ ArgPrice = 30 /\ ArgTotal = 40 /\ args.ranges = <<rangeLow, rangeHigh>>
    /\ ret[1] = [eligible |-> FALSE,
                 data |-> [exclusion_reason |-> "non_upgradable_blocked"]]

\* C14: a gift that passes the three exclusion rules is eligible exactly when
\* a range holds its price and admits its total amount; eligible, it carries
\* the quantity and recipients of the first such range; otherwise it is a
\* range error carrying the price and the total amount.
C14_RangeDecides ==
    (Evaluated /\ ~ArgSoldOut /\ ArgLimited
        /\ ~(args.only_upgradable /\ ~ArgHas("upgrade_price"))) =>
        LET M == Matching(args.ranges, ArgPrice, ArgTotal)
        IN  /\ ret[1].eligible <=> M # {}
            /\ M # {} =>
                 LET first == CHOOSE i \in M : \A j \in M : i <= j
                 IN  ret[1].data = [quantity |-> args.ranges[first].quantity,
                                    recipients |-> args.ranges[first].recipients]
            /\ M = {} =>
                 ret[1].data = [range_error |-> TRUE, gift_price |-> ArgPrice,
                                total_amount |-> ArgTotal]

\* ranges (10-50, supply <= 100, 2, [101]) and (51-100, supply <= 50, 1,
\* [102]), price 30, total amount 40: quantity 2 for recipient 101
C14_Witness ==
    /\ Evaluated
    /\ args.ranges = <<rangeLow, rangeHigh>>
    /\ args.gift_data = [id |-> 1, price |-> 30, total_amount |-> 40,
                         is_limited |-> TRUE, is_sold_out |-> FALSE]
    /\ ret[1] = [eligible |-> TRUE,
                 data |-> [quantity |-> 2, recipients |-> <<101>>]]

----------------------------------------------------------------------------
(* Prioritizer on its own: prioritize_gifts applied to bounded inputs *)

\* longest catalog handed to the prioritizer
MaxBatch == 3

supplyHigh  == [id |-> 1, is_limited |-> TRUE, total_amount |-> 100]
supplyLow   == [id |-> 2, is_limited |-> TRUE, total_amount |-> 10]
supplyHigh2 == [id |-> 3, is_limited |-> TRUE, total_amount |-> 100]
unlimited   == [id |-> 4, is_limited |-> FALSE, total_amount |-> 5]
supplyNone  == [id |-> 5, is_limited |-> TRUE]
BatchGifts == {supplyHigh, supplyLow, supplyHigh2, unlimited, supplyNone}

\* the fetched catalogs: every id once, in any order
CatalogInputs == { c \in SeqsUpTo(BatchGifts, MaxBatch) : c # <<>> /\ NoDuplicates(c) }

\* the new gifts of a catalog whose new ids are `new`, in dict order
Batch(catalog, new) == SelectSeq(catalog, LAMBDA gift_data : gift_data.id \in new)

InitPrioritize ==
    /\ LoopOff
    /\ fn = "prioritize_gifts"
    /\ args \in UNION { [low_supply : BOOLEAN, catalog : {c},
                         new : (SUBSET IdSet(c)) \ {{}}] : c \in CatalogInputs }
    /\ ret = <<>>

apply_prioritize_gifts ==
    /\ fn = "prioritize_gifts"
    /\ ret = <<>>
    /\ ret' = << prioritize_gifts(args.low_supply, Batch(args.catalog, args.new),
                                  Ids(args.catalog)) >>
    /\ UNCHANGED <<configVars, balance, history, loopVars, cbVars, buyVars, obsVars,
                   fn, args>>

NextPrioritize == apply_prioritize_gifts

SpecPrioritize == InitPrioritize /\ [][NextPrioritize]_vars

\* prioritize_gifts has returned
Prioritized == fn = "prioritize_gifts" /\ ret # <<>>

\* the place of the gift with the id in the catalog, 1 for the first listed
Discovered(id) == CHOOSE k \in 1..Len(args.catalog) : args.catalog[k].id = id

\* C15: with low-supply prioritization off the prioritizer returns the new
\* gifts in their discovery order, the order of the fetched catalog: the gift
\* listed earlier comes first.
C15_DiscoveryOrder ==
    (Prioritized /\ ~args.low_supply) =>
        \A i, j \in 1..Len(ret[1]) :
            i < j => Discovered(ret[1][i].id) < Discovered(ret[1][j].id)

\* C16: with low-supply prioritization on, of two limited gifts with
\* different total amounts the one with the smaller total amount comes
\* earlier in the output, wherever the catalog listed them.
C16_LowSupplyFirst ==
    (Prioritized /\ args.low_supply) =>
        \A i, j \in 1..Len(ret[1]) :
            LET a == ret[1][i]
                b == ret[1][j]
            IN  ( /\ "is_limited" \in DOMAIN a /\ a.is_limited
                  /\ "is_limited" \in DOMAIN b /\ b.is_limited
                  /\ "total_amount" \in DOMAIN a /\ "total_amount" \in DOMAIN b
                  /\ a.total_amount < b.total_amount ) => i < j

\* total amount 100 listed first, total amount 10 listed last and taken first
C16_Witness ==
    /\ Prioritized /\ args.low_supply
    /\ Ids(args.catalog) = <<1, 4, 2>> /\ args.new = {1, 4, 2}
    /\ Ids(ret[1]) = <<2, 1, 4>>

----------------------------------------------------------------------------
(* Notifications, spacing and failures of the loop *)

\* the place in log of the first purchase call after place i, or past the end
NextCall(i) ==
    IF \E j \in (i + 1)..Len(log) : IsSendGift(log[j])
    THEN CHOOSE j \in (i + 1)..Len(log) :
            IsSendGift(log[j]) /\ \A k \in (i + 1)..(j - 1) : ~IsSendGift(log[k])
    ELSE Len(log) + 1

\* the notifications about the purchase call that concluded at place i: those
\* up to the next call, the partial-purchase report of buy_gift left aside
OutcomeNotifications(i) ==
    { j \in (i + 1)..(NextCall(i) - 1) :
        log[j].t = "notification" /\ "partial_purchase" \notin DOMAIN log[j].data }

\* C17: every purchase call that concluded, with success or with a failure of
\* any classification, is followed by exactly one notification.
C17_OneNotificationPerOutcome ==
    \A i \in 1..Len(log) :
        IsResult(log[i]) => Cardinality(OutcomeNotifications(i)) = 1

\* C18: the inter-purchase delay is taken between any two successive purchase
\* calls: when a purchase call is about to be issued, asyncio.sleep(0.5) has
\* run since the previous one.
C18_DelayBetweenPurchaseCalls ==
    pc = "send_gift" => delayed

\* buy_gift ran to its end for the recipient: no exception left it
Completed == \A i \in 1..Len(log) : ~(IsResult(log[i]) /\ log[i].how = "exception")

C20_FetchFailureIsNotFatal ==
    pc # "terminated"

----------------------------------------------------------------------------
(* Balance and price lookups of a purchase attempt *)

\* the balance lookup of the current attempt raised
BalanceLookupFailed ==
    InAttempt /\ \E i \in 1..Len(log) : log[i] = Lookup("get_stars_balance", FALSE)

\* the balance lookup of the current attempt returned
BalanceLookupReturned ==
    InAttempt /\ \E i \in 1..Len(log) : log[i] = Lookup("get_stars_balance", TRUE)

\* C21 as stated: in an attempt whose balance lookup failed no purchase call
\* is issued.
C21_BalanceFailureBlocks ==
    BalanceLookupFailed => (pc # "send_gift" /\ SendGifts = <<>>)

\* C21 amended: a failed balance lookup counts as balance 0; with a positive
\* looked-up price nothing is affordable and no purchase call is issued, with
\* a looked-up price of 0 the requested quantity is attempted.
C21_BalanceFailureIsZero ==
    BalanceLookupFailed =>
        /\ current_balance = 0
        /\ gift_price > 0 =>
              (max_affordable = 0 /\ pc = "delay" /\ SendGifts = <<>>)
        /\ gift_price = 0 => max_affordable = quantity

\* the lookup failed for a gift of price 10: the insufficient-balance report
\* and no call
C21_Witness ==
    /\ BalanceLookupFailed
    /\ balance > 0 /\ gift_price = 10 /\ pc = "delay"
    /\ Len(Notifications("balance_error")) = 1
    /\ SendGifts = <<>>

\* the partial-purchase report of the current attempt, when one was sent
PartialReport == Notifications("partial_purchase")[1]

\* C26: the balance a partial-purchase report carries is the balance that
\* remains: the balance read before the purchases less what the purchased
\* units cost, which is the balance of the account when the report is sent.
C26_PartialReportCarriesRemainingBalance ==
    (pc = "delay" /\ BalanceLookupReturned /\ Notifications("partial_purchase") # <<>>) =>
        PartialReport.data.current_balance = balance

\* C30: the insufficient-balance report carries the unit price of the gift
\* and the balance that was read, the unit price as the balance_too_low
\* report of a failed purchase call carries it.
C30_InsufficientReportCarriesUnitPrice ==
    (pc = "delay" /\ max_affordable = 0 /\ Notifications("balance_error") # <<>>) =>
        /\ Notifications("balance_error")[1].data.gift_price = gift_price
        /\ Notifications("balance_error")[1].data.current_balance = current_balance

----------------------------------------------------------------------------
(* Low-supply order and the exclusion tally *)

\* position of a gift of the catalog: len(discovery order) - index
PositionOf(id) == Len(args.catalog) - (Discovered(id) - 1)

\* the gift is limited and has a total amount
HasSupply(g) ==
    /\ "is_limited" \in DOMAIN g /\ g.is_limited
    /\ "total_amount" \in DOMAIN g

\* (supply key, position) of a before that of b, +infinity for no supply
SupplyBefore(a, b) ==
    IF HasSupply(a) /\ HasSupply(b)
    THEN \/ a.total_amount < b.total_amount
         \/ a.total_amount = b.total_amount /\ PositionOf(a.id) < PositionOf(b.id)
    ELSE IF HasSupply(a) THEN TRUE
    ELSE IF HasSupply(b) THEN FALSE
    ELSE PositionOf(a.id) < PositionOf(b.id)

\* C28: with low-supply prioritization on the output holds the gifts of the
\* batch in ascending (supply key, position) order: equal supply keys by
\* ascending position, a gift without supply after every gift with one.
C28_SupplyThenPosition ==
    (Prioritized /\ args.low_supply) =>
        /\ Len(ret[1]) = Len(Batch(args.catalog, args.new))
        /\ IdSet(ret[1]) = args.new
        /\ \A i \in 1..Len(ret[1]) : ret[1][i].position = PositionOf(ret[1][i].id)
        /\ \A i, j \in 1..Len(ret[1]) :
              i < j => SupplyBefore(ret[1][i], ret[1][j])

\* two gifts of total amount 100 and a non-limited one between them in the
\* catalog: the later listed of the two first, the non-limited last
C28_Witness ==
    /\ Prioritized /\ args.low_supply
    /\ Ids(args.catalog) = <<1, 4, 3>> /\ args.new = {1, 3, 4}
    /\ Ids(ret[1]) = <<3, 1, 4>>

\* number of new gifts that satisfy the predicate
CountNew(P(_)) == Cardinality({ i \in 1..Len(new_gifts) : P(new_gifts[i]) })

\* C29: the tally of a batch counts every category on its own: the new gifts
\* that are sold out, those that are not limited, and, with the upgradable
\* option set, those without upgrade price (0 with the option off); a gift
\* that falls under several categories is counted in each; the summary
\* carries the tally.
C29_TallyPerCategory ==
    /\ (pc \in {"next_gift", "buy_gift", "send_gift", "sending", "delay"}
        \/ (pc \in {"save", "sleep"} /\ new_gifts # <<>>)) =>
          /\ skip_counts.sold_out_count =
                CountNew(LAMBDA g : "is_sold_out" \in DOMAIN g /\ g.is_sold_out)
          /\ skip_counts.non_limited_count =
                CountNew(LAMBDA g : ~("is_limited" \in DOMAIN g /\ g.is_limited))
          /\ skip_counts.non_upgradable_count =
                IF PURCHASE_ONLY_UPGRADABLE_GIFTS
                THEN CountNew(LAMBDA g : "upgrade_price" \notin DOMAIN g)
                ELSE 0
    /\ \A i \in 1..Len(summary) : summary[i] = skip_counts

\* a sold-out gift without upgrade price, the option set: counted as sold
\* out and as non-upgradable
C29_Witness ==
    /\ pc = "save" /\ PURCHASE_ONLY_UPGRADABLE_GIFTS
    /\ Ids(new_gifts) = <<3, 1>>
    /\ skip_counts = [sold_out_count |-> 1, non_limited_count |-> 0,
                      non_upgradable_count |-> 1]
    /\ summary = <<skip_counts>>

----------------------------------------------------------------------------
(* History file on its own: save_gift_history, then load_gift_history *)

InitSnapshot ==
    /\ LoopOff
    /\ fn = "save_load"
    /\ args \in UNION { [catalog : {c}, new : SUBSET IdSet(c)] :
                         c \in Catalogs \cup CatalogInputs }
    /\ ret = <<>>

apply_save_load ==
    /\ fn = "save_load"
    /\ ret = <<>>
    /\ ret' = << load_gift_history(
                    save_gift_history(Snapshot(args.catalog, args.new))) >>
    /\ UNCHANGED <<configVars, balance, history, loopVars, cbVars, buyVars, obsVars,
                   fn, args>>

NextSnapshot == apply_save_load

SpecSnapshot == InitSnapshot /\ [][NextSnapshot]_vars

\* the snapshot was written and read back
Reloaded == fn = "save_load" /\ ret # <<>>

\* C23: a snapshot written by save_gift_history and read by
\* load_gift_history is keyed by the ids that were written, and under every
\* id stands a gift with the attributes, names and values, that were written.
C23_SnapshotRoundTrip ==
    Reloaded =>
        LET written == Snapshot(args.catalog, args.new)
            loaded  == ret[1]
        IN  /\ IdSet(loaded) = IdSet(written)
            /\ Len(loaded) = Cardinality(IdSet(written))
            /\ \A i \in 1..Len(written) : \E j \in 1..Len(loaded) :
                  /\ loaded[j].id = written[i].id
                  /\ DOMAIN loaded[j] = DOMAIN written[i]
                  /\ \A key \in DOMAIN written[i] : loaded[j][key] = written[i][key]

\* two gifts written, one with its position, a boolean that is false, and
\* a gift with nothing but id and price
C23_Witness ==
    /\ Reloaded
    /\ args.catalog = <<giftD, giftB>> /\ args.new = {2}
    /\ Len(ret[1]) = 2
    /\ ret[1][1] = giftD
    /\ ret[1][2].position = 1 /\ ret[1][2].is_sold_out = FALSE
    /\ ret[1][2].total_amount = 10

----------------------------------------------------------------------------
(* Failures, interruption and freshness of the purchase flow *)

\* C22: a purchase call that failed, with an error code the handler knows,
\* with another RPCError or with any other exception, does not end the
\* loop: the failure is reported with its error text, the remaining
\* recipients of the gift and the remaining gifts of the batch are still
\* handed on, the history is written and the next pass starts.
C22_PurchaseFailureIsNotFatal ==
    purchase_failed =>
        /\ pc \in {"delay", "buy_gift", "send_gift", "sending", "next_gift", "save",
                    "sleep", "poll"}
        /\ (pc = "delay" /\ chat_id \in failed) =>
              Len(Notifications("error_message")) = 1
        /\ (pc = "next_gift" /\ recipients # <<>>) => attempted = recipients
        /\ pc \in {"save", "sleep"} => called = Ids(prioritized_gifts)
        /\ pc = "sleep" => FileIds(history) = IdSet(current_gifts)
        /\ pc = "poll" => (prevFetched # <<>> /\ FileIds(history) = IdSet(prevFetched[1]))

\* a purchase call of the pass that fetched gifts 2 and 1 failed; the
\* history holds both ids and the loop is at the top of the next pass
C22_Witness ==
    /\ purchase_failed
    /\ pc = "poll"
    /\ prevFetched = << <<giftB, giftA>> >>
    /\ FileIds(history) = {1, 2}

\* C24: an interrupt of the loop takes effect only at the top of a pass or
\* during the sleep between two passes; a purchase call in flight when the
\* interrupt arrives concludes and is reported first.
C24_CancelledBetweenPasses ==
    pc = "cancelled" => cancelled_at \in {"poll", "sleep"}

\* the balance reads of the affordability computations in the gift's log
BalanceReads == { i \in 1..Len(log) : log[i].t = "lookup" }

\* the notifications of the units that were sent
SentReports == Notifications("success_message")

Fresh == InAttempt /\ SendGifts = <<>>

\* C27: every purchase attempt computes the affordable quantity from its
\* own lookups: the price is the one the platform listed in this attempt's
\* answer (0 when it listed none), never the price of the catalog the gift
\* was detected in, and the balance is the account's balance at that moment
\* (0 when the lookup raised), whatever earlier attempts have read or spent.
C27_FreshBalanceAndPrice ==
    InAttempt =>
        /\ IF listed_prices = {} THEN gift_price = 0 ELSE gift_price \in listed_prices
        /\ Len(log) >= 3
        /\ log[2] = Call("get_available_gifts")
        /\ log[3].t = "lookup" /\ log[3].name = "get_stars_balance"
        /\ Fresh => current_balance = IF log[3].ok THEN balance ELSE 0
        /\ max_affordable = MaxAffordable(quantity, current_balance, gift_price)

\* the pass began with 60 and bought gift 2 at 60; the attempt for gift 1,
\* detected at price 10, reads the balance 0 that is left and the price 30
\* now listed
C27_Witness ==
    /\ Fresh
    /\ called = <<2, 1>> /\ cycle_balance = 60
    /\ prioritized_gifts[idx].price = 10
    /\ gift_price = 30 /\ listed_prices = {30}
    /\ log[3].ok /\ current_balance = 0 /\ balance = 0
    /\ max_affordable = 0

----------------------------------------------------------------------------
(* The prioritizer's output as a rearrangement of the batch *)

\* C36: in both modes the output of prioritize_gifts is a permutation of the
\* new gifts: every new id occurs exactly once and no other id of the
\* catalog occurs, while each position is counted in the id list of the
\* whole fetched catalog.
C36_PermutationOfBatch ==
    Prioritized =>
        LET out == ret[1]
        IN  /\ Len(out) = Cardinality(args.new)
            /\ IdSet(out) = args.new
            /\ NoDuplicates(Ids(out))
            /\ \A i \in 1..Len(out) :
                  /\ out[i].position = Len(args.catalog) + 1 - Discovered(out[i].id)
                  /\ \E k \in 1..Len(args.catalog) :
                        out[i] = WithPosition(args.catalog[k], Ids(args.catalog))

\* low-supply mode, a catalog of three whose first gift is known: the two
\* new gifts come out in the order opposite to the catalog's, the gift
\* without supply last
C36_Witness ==
    /\ Prioritized /\ args.low_supply
    /\ args.catalog = <<supplyHigh, supplyNone, supplyLow>>
    /\ args.new = {2, 5}
    /\ Ids(ret[1]) = <<2, 5>>
    /\ ret[1][1].position = 1 /\ ret[1][2].position = 2

----------------------------------------------------------------------------
(* Recipient parser on its own: _parse_single_recipient applied to bounded *)
(* inputs.  A str is the sequence of its characters.                       *)

\* longest recipient string handed to the parser
MaxRecipientLen == 3

RecipientChars == {"@", "0", "7", "b", "_"}
Digits == {"0", "1", "2", "3", "4", "5", "6", "7", "8", "9"}

\* str.startswith('@')
startswith_at(uid) == uid # <<>> /\ uid[1] = "@"

\* str.isdigit()
isdigit(uid) == uid # <<>> /\ \A i \in 1..Len(uid) : uid[i] \in Digits

\* int(uid) of a string of decimal digits
RECURSIVE int(_)
int(uid) ==
    IF uid = <<>> THEN 0
    ELSE int(SubSeq(uid, 1, Len(uid) - 1)) * 10
         + (CHOOSE d \in 0..9 : ToString(d) = uid[Len(uid)])

\* recipient_processors, in the order of the dict
recipient_processors == <<"username_with_at", "numeric_id", "username_without_at">>

\* processor['condition'](value): "True", "False", or the TypeError of
\* calling `lambda: True` with an argument
condition(processor, uid) ==
    IF processor = "username_with_at"
    THEN (IF startswith_at(uid) THEN "True" ELSE "False")
    ELSE IF processor = "numeric_id"
    THEN (IF isdigit(uid) THEN "True" ELSE "False")
    ELSE "TypeError"

\* processor['handler'](value): a handle (str) or a numeric id (int)
handler(processor, uid) ==
    IF processor = "username_with_at" THEN [kind |-> "handle", handle |-> Tail(uid)]
    ELSE IF processor = "numeric_id" THEN [kind |-> "id", id |-> int(uid)]
    ELSE [kind |-> "handle", handle |-> uid]

\* Config._process_with_handlers: the handler of the first processor whose
\* condition holds; None when there is none; an exception of a condition
\* leaves the function
RECURSIVE process_with_handlers(_, _)
process_with_handlers(value, processors) ==
    IF processors = <<>> THEN [kind |-> "None"]
    ELSE LET condition_result == condition(Head(processors), value)
         IN  IF condition_result = "TypeError" THEN [kind |-> "TypeError"]
             ELSE IF condition_result = "True" THEN handler(Head(processors), value)
             ELSE process_with_handlers(value, Tail(processors))

\* Config._parse_single_recipient
parse_single_recipient(recipient) ==
    process_with_handlers(recipient, recipient_processors)

\* the stripped, non-empty strings _parse_recipients_list hands over
RecipientInputs ==
    { r \in SeqsUpTo(RecipientChars, MaxRecipientLen) : r # <<>> }

InitRecipient ==
    /\ LoopOff
    /\ fn = "parse_single_recipient"
    /\ args \in RecipientInputs
    /\ ret = <<>>

apply_parse_single_recipient ==
    /\ fn = "parse_single_recipient"
    /\ ret = <<>>
    /\ ret' = << parse_single_recipient(args) >>
    /\ UNCHANGED <<configVars, balance, history, loopVars, cbVars, buyVars, obsVars,
                   fn, args>>

NextRecipient == apply_parse_single_recipient

SpecRecipient == InitRecipient /\ [][NextRecipient]_vars

\* _parse_single_recipient has returned or raised
Parsed == fn = "parse_single_recipient" /\ ret # <<>>

\* C31: parsing a recipient never fails and gives the result of the first
\* matching processor: '@name' the handle 'name', a string of digits the
\* numeric id, any other non-empty string that string as a handle.
C31_RecipientParseNeverFails ==
    Parsed =>
        IF startswith_at(args)
        THEN ret[1] = [kind |-> "handle", handle |-> Tail(args)]
        ELSE IF isdigit(args)
        THEN ret[1] = [kind |-> "id", id |-> int(args)]
        ELSE ret[1] = [kind |-> "handle", handle |-> args]

----------------------------------------------------------------------------
(* What the callback does for a gift that is not eligible *)

\* some configured range takes the gift's price and total amount
InSomeRange(g) ==
    \E i \in 1..Len(GIFT_RANGES) :
        /\ GIFT_RANGES[i].min_price <= GiftPrice(g)
        /\ GiftPrice(g) <= GIFT_RANGES[i].max_price
        /\ TotalAmount(g) <= GIFT_RANGES[i].supply_limit

\* sold out, not limited, blocked as non-upgradable, or outside every range
NotEligible(g) ==
    \/ IsSoldOut(g)
    \/ ~IsLimited(g)
    \/ (PURCHASE_ONLY_UPGRADABLE_GIFTS /\ ~IsUpgradable(g))
    \/ ~InSomeRange(g)

\* the gift of the fetched catalog with the id
FetchedGift(id) == fetched[CHOOSE k \in 1..Len(fetched) : fetched[k].id = id]

\* the callback has just returned for the gift before the idx-th
Returned == pc = "next_gift" /\ idx > 1

\* C33: for a gift that is not eligible the callback makes no purchase
\* call, no balance lookup and no recipient lookup and sends exactly one
\* notification; so no purchase call of the pass is for a gift that the
\* fetched catalog shows sold out, not limited, blocked as non-upgradable
\* or outside every range.
C33_NotEligibleOnlyNotifies ==
    /\ (Returned /\ NotEligible(prioritized_gifts[idx - 1])) =>
          /\ Len(log) = 1
          /\ log[1].t = "notification"
          /\ log[1].gift_id = prioritized_gifts[idx - 1].id
          /\ attempted = <<>>
    /\ \A i \in 1..Len(log) :
          log[i].t \in {"send_gift", "call", "lookup"} =>
              ~NotEligible(prioritized_gifts[IF pc = "next_gift" THEN idx - 1 ELSE idx])
    /\ \A i \in 1..Len(lastPurchase) :
          ~NotEligible(FetchedGift(lastPurchase[i].gift_id))

\* gift 1 was bought for, then the sold-out gift 3 got its one notification
C33_Witness ==
    /\ Returned /\ idx = 3
    /\ called = <<1, 3>>
    /\ IsSoldOut(prioritized_gifts[2])
    /\ log = send_notification(3, [exclusion_reason |-> "sold_out"])
    /\ lastPurchase # <<>> /\ lastPurchase[1].gift_id = 1

----------------------------------------------------------------------------
(* The purchased count of the partial-purchase report *)

\* the purchase calls of the attempt that returned
Succeeded == SelectSeq(log, LAMBDA e : e.t = "result" /\ e.how = "ok")

\* C34: a partial-purchase report sent for a recipient carries as purchased
\* count the number of purchase calls that succeeded for that recipient,
\* also when a purchase call of the sequence failed.
C34_PurchasedCountsSuccesses ==
    \A i \in 1..Len(Notifications("partial_purchase")) :
        Notifications("partial_purchase")[i].data.purchased = Len(Succeeded)

----------------------------------------------------------------------------
(* Spending against the balance; reprocessing across passes *)

\* the attempt's lookups returned, the price is positive and listed, and
\* the balance has changed since the attempt's lookup only by its
\* successful purchases, each deducting the looked-up price
Assumed ==
    /\ InAttempt
    /\ log[3].ok
    /\ gift_price > 0 /\ gift_price \in listed_prices
    /\ balance = current_balance - Len(Succeeded) * gift_price

\* C32: when the lookups of an attempt succeed, the price is positive and
\* every successful purchase deducts it, the purchase calls issued in the
\* attempt times the price never exceed the balance the attempt read, so a
\* call in flight is covered by what is left; and what the successful
\* purchases of a pass have cost never exceeds the balance the pass began
\* with.
C32_NoOverdraft ==
    /\ Assumed => Len(SendGifts) * gift_price <= current_balance
    /\ (Assumed /\ pc = "sending") => gift_price <= balance
    /\ 0 <= cycle_balance - balance
    /\ cycle_balance - balance <= cycle_balance

\* the pass began with 70 and bought gift 2 at 60 for its recipient; the
\* attempt for gift 1 read the 10 left and got one unit at 10: the account
\* is at 0
C32_Witness ==
    /\ Assumed /\ pc = "delay"
    /\ called = <<2, 1>>
    /\ cycle_balance = 70 /\ gift_price = 10
    /\ current_balance = 10 /\ Len(SendGifts) = 1
    /\ balance = 0

\* ids of the catalog the previous completed pass fetched: before the first
\* pass of a run, the ids the last pass of the earlier run left in the
\* history file; none when there is no file
PrevFetchedIds ==
    IF prevFetched = <<>> THEN FileIds(prevSnapshot) ELSE IdSet(prevFetched[1])

\* C35: when the callbacks of a pass are done, the callback was invoked,
\* once each, for exactly the ids of the catalog fetched in this pass that
\* were not in the catalog fetched in the previous pass (none before the
\* first pass of the first run): an id that stays in the catalog is not processed again, an
\* id that was missing from the previous fetch is processed again.
C35_CalledForFetchedMinusPrevious ==
    pc \in {"save", "sleep"} =>
        /\ {called[i] : i \in 1..Len(called)} = IdSet(fetched) \ PrevFetchedIds
        /\ NoDuplicates(called)

\* gift 1 was bought once in an earlier pass (of 25 the pass began with
\* 15), the previous pass fetched an empty catalog; gift 1 is fetched
\* again, handed to the callback and bought again
C35_Witness ==
    /\ pc = "save"
    /\ prevFetched = << <<>> >>
    /\ fetched = <<giftA>> /\ called = <<1>>
    /\ cycle_balance = 15 /\ balance = 5
    /\ lastPurchase # <<>>

----------------------------------------------------------------------------
(* _distribute_gifts on its own: called for one gift with a bounded list of *)
(* recipients                                                               *)

\* longest list of recipients
MaxRecipients == 2

RecipientIds == {101, 102, 103}

\* the lists of 1 to MaxRecipients different recipients
RecipientLists == { list \in SeqsUpTo(RecipientIds, MaxRecipients) : NoDuplicates(list) }

DistributeGifts == {giftA, giftB}
DistributeQuantities == {1, 5}

\* process_new_gift has called _distribute_gifts(app, gift_id, quantity,
\* recipients) for the only new gift of a first pass
InitDistribute ==
    /\ PURCHASE_ONLY_UPGRADABLE_GIFTS = FALSE /\ PRIORITIZE_LOW_SUPPLY = FALSE
    /\ balance \in InitialBalances
    /\ history = <<>>
    /\ pc = "buy_gift"
    /\ old_gifts = <<>>
    /\ fetched \in { <<g>> : g \in DistributeGifts }
    /\ gift_ids = fetch_current_gifts(fetched).gift_ids
    /\ new_gifts = [i \in 1..Len(fetched) |-> WithPosition(fetched[i], gift_ids)]
    /\ current_gifts = new_gifts
    /\ prioritized_gifts = prioritize_gifts(PRIORITIZE_LOW_SUPPLY, fetched, gift_ids)
    /\ skip_counts = SkipCounts(PURCHASE_ONLY_UPGRADABLE_GIFTS, fetched)
    /\ idx = 1
    /\ called = Ids(fetched)
    /\ quantity \in DistributeQuantities
    /\ recipients \in RecipientLists
    /\ ridx = 1
    /\ username = ""
    /\ gift_price = 0 /\ current_balance = 0 /\ max_affordable = 0 /\ current_gift = 0
    /\ attempted = <<>> /\ failed = {}
    /\ lastPurchase = <<>> /\ log = <<>> /\ summary = <<>>
    /\ delayed = TRUE /\ partial_reports = 0
    /\ purchase_failed = FALSE /\ first_affordable = <<>> /\ listed_prices = {}
    /\ prevFetched = <<>> /\ prevSnapshot = <<>>
    /\ cancelled_at = "none"
    /\ cycle_balance = balance
    /\ PureIdle

\* the steps of the call up to its return to _process_new_gifts
NextDistribute ==
    \/ buy_gift
    \/ send_gift_call
    \/ send_gift_returns
    \/ send_gift_rpc_error
    \/ send_gift_exception
    \/ distribute_delay

SpecDistribute == InitDistribute /\ [][NextDistribute]_vars

====
